---- MODULE Spec2Model ----
(***************************************************************************)
(* A model of sdanalysis-rs: the K-nearest-neighbour classifier (knn.rs),  *)
(* the vote consensus of its labels (learning.rs), the periodic metric     *)
(* (distance.rs), the Frame with its neighbour queries (frame.rs) and the  *)
(* order parameters (order.rs), the Voronoi areas (voronoi.rs), the GSD    *)
(* trajectory iterator (gsd/src/lib.rs) and the binary (main.rs).          *)
(*                                                                         *)
(* Eleven specifications share the module:                                 *)
(*   Spec          the KNN object under arbitrary fit / predict calls      *)
(*   SpecConsensus Classes::consensus applied to every bounded vote list   *)
(*   SpecImage     Position::distance_2 / min_image on bounded cells and   *)
(*                 points                                                  *)
(*   SpecCell      make_fractional / make_cartesian / min_image applied to *)
(*                 a point of a cell of any tilt                           *)
(*   SpecFrame     one neighbour or order-parameter query on a Frame       *)
(*   SpecShoelace  shoelace applied to every bounded polygon               *)
(*   SpecRing      hexatic_order_iter on rotated rings of neighbours       *)
(*   SpecFromStr   Classes::from_str applied to every short file name      *)
(*   SpecVoronoi   voronoi_area applied to a frame of a few particles      *)
(*   SpecTraj      GSDTrajectory under arbitrary next / nth calls          *)
(*   SpecMain      the threads of the binary: main, the pool's closures    *)
(*                 and the writer                                          *)
(* Each specification drives its own variables and leaves the others at    *)
(* their idle values.                                                      *)
(***************************************************************************)
EXTENDS Integers, Sequences, FiniteSets

VARIABLES
    tree,      \* KNN.tree: None, or the objects bulk-loaded by the last fit
    k,         \* KNN.k
    lastFit,   \* the arguments of the most recent fit call (history)
    ret,       \* what the most recent KNN call returned to its caller
    votes,     \* the argument of Classes::consensus
    verdict,   \* what Classes::consensus returned
    cell,      \* Position.cell / Frame.simulation_cell
    pa,        \* Position.point (self)
    pb,        \* the query point handed to distance_2
    img,       \* the displacements computed so far
    box,       \* the cell handed to the coordinate conversions
    pt,        \* the point handed to the coordinate conversions
    conv,      \* what the coordinate conversions returned
    frame,     \* the Frame: cell, positions, orientations, neighbour tree
    out,       \* what the most recent query on the Frame returned
    polygon,   \* the polygon handed to shoelace
    area,      \* what shoelace returned
    ring,      \* the ring of neighbours handed to hexatic_order_iter
    psi,       \* what hexatic_order_iter made of the ring
    name,      \* the file name handed to Classes::from_str
    parsed,    \* what Classes::from_str returned
    vframe,    \* the Frame handed to voronoi_area
    areas,     \* what voronoi_area did with it
    file,      \* the GSD file behind the GSDTrajectory
    curr,      \* GSDTrajectory.curr
    yielded,   \* what the calls of next and nth returned, oldest first
    args,      \* the command line of the binary (Args)
    pc,        \* where the main thread of the binary is
    adaptor,   \* trj.step_by(..).take(..): first_take and n
    tasks,     \* the closures handed to rayon::spawn_fifo
    chan,      \* the CalcResults sent and not yet received
    writer,    \* where the writer thread is
    written    \* the rows serialised so far

knnVars == <<tree, k, lastFit, ret>>
consVars == <<votes, verdict>>
imgVars == <<cell, pa, pb, img>>
cellVars == <<box, pt, conv>>
frameVars == <<frame, out>>
shoeVars == <<polygon, area>>
ringVars == <<ring, psi>>
strVars == <<name, parsed>>
voroVars == <<vframe, areas>>
gsdVars == <<file, curr>>
iterVars == <<yielded>>
mainVars == <<args, pc, adaptor, tasks, chan, writer, written>>
restVars == <<shoeVars, ringVars, strVars, voroVars, gsdVars, iterVars,
              mainVars>>
coreVars == <<knnVars, consVars, imgVars, cellVars, frameVars>>
vars == <<tree, k, lastFit, ret, votes, verdict, cell, pa, pb, img,
          box, pt, conv, frame, out, restVars>>

\* Option<T>
None == [some |-> FALSE]
Some(v) == [some |-> TRUE, val |-> v]

\* Sequences over S of length at most n.
SeqsUpTo(S, n) == UNION {[1..m -> S] : m \in 0..n}

Min(a, b) == IF a <= b THEN a ELSE b

(***************************************************************************)
(* learning.rs: the label type and its consensus of votes                  *)
(***************************************************************************)

\* enum Classes, in declaration order.
ClassList == <<"Liquid", "P2", "P2GG", "PG">>
Classes == {ClassList[i] : i \in 1..Len(ClassList)}

\* Iterator::max_by_key over boxes.iter().enumerate(): a fold that keeps the
\* running maximum only while it is strictly greater than the next item, so
\* the later of two equal items wins; None for an empty iterator.
\* boxes is indexed from 0, as the Rust array is.
RECURSIVE MaxByKeyFrom(_, _, _)
MaxByKeyFrom(boxes, i, best) ==
    IF i \notin DOMAIN boxes THEN best
    ELSE IF best.some /\ best.val[2] > boxes[i]
         THEN MaxByKeyFrom(boxes, i + 1, best)
         ELSE MaxByKeyFrom(boxes, i + 1, Some(<<i, boxes[i]>>))

MaxByKey(boxes) == MaxByKeyFrom(boxes, 0, None)

\* The counting loop of consensus: one box per label.
RECURSIVE Tally(_, _, _)
Tally(vs, i, boxes) ==
    IF i > Len(vs) THEN boxes
    ELSE LET b == CHOOSE j \in 0..3 : ClassList[j + 1] = vs[i]
         IN  Tally(vs, i + 1, [boxes EXCEPT ![b] = @ + 1])

\* Classes::consensus.
consensus(vs) ==
    LET boxes == Tally(vs, 1, [j \in 0..3 |-> 0])
        found == MaxByKey(boxes)
        \* .unwrap_or((0, &0)).0
        max_index == IF found.some THEN found.val[1] ELSE 0
    IN  ClassList[max_index + 1]

\* The number of votes for label c.
Count(vs, c) == Cardinality({i \in DOMAIN vs : vs[i] = c})

(***************************************************************************)
(* knn.rs: Features, KNN::fit, KNN::predict                                *)
(***************************************************************************)

\* KNN::default sets k to 5.
DefaultK == 5

\* The feature vectors of the unit tests: [0.; 2] and [1.; 2].
Zeros == <<0, 0>>
Ones == <<1, 1>>
TrainPoints == {Zeros, Ones}
\* Query points: the two cluster centres.
QueryPoints == {Zeros, Ones}
\* The labels of the freely chosen training lists: the first and the last
\* label of the enumeration (the unit-test training sets use all four).
TrainLabels == {"Liquid", "PG"}

MaxTrain == 2
MaxQuery == 2
\* The cluster size of the unit tests (vec![..; 10]).
ClusterSize == 10

\* Features::new
Features(features, label) == [features |-> features, label |-> label]

\* PointDistance::distance_2 for Features: squared Euclidean, no periodicity.
FeatDistance2(obj, point) ==
    LET d(i) == obj.features[i] - point[i]
    IN  d(1) * d(1) + d(2) * d(2)

\* izip!(features, labels).map(Features::new).collect(): stops at the end of
\* the shorter list.
Zip(features, labels) ==
    [i \in 1..Min(Len(features), Len(labels)) |->
        Features(features[i], labels[i])]

\* A fit that adds the new objects to the index it already holds.
fitAppending(old, features, labels) ==
    IF old.some THEN Some(old.val \o Zip(features, labels))
    ELSE Some(Zip(features, labels))

\* KNN::fit: the new value of self.tree. RTree::bulk_load keeps every object
\* it is given; the previous tree (old) is dropped.
fit(old, features, labels) == Some(Zip(features, labels))

\* An iterator over objects by increasing dist (a distance per object index),
\* cut after n items (all of them when fewer exist): the objects it is sure to
\* yield (strictly closer than the last one taken), the objects tied at the
\* distance of the last one taken, and how many of the tied ones it yields.
\* Objects at equal distance come in an order the R-tree does not fix, so any
\* `need` of the tied ones can be the ones taken.
FirstBy(dist, n) ==
    LET idx == DOMAIN dist
        want == Min(n, Cardinality(idx))
        dists == {dist[i] : i \in idx}
        within(t) == Cardinality({i \in idx : dist[i] <= t})
    IN  IF want = 0 THEN [sure |-> {}, tied |-> {}, need |-> 0]
        ELSE LET enough == {t \in dists : within(t) >= want}
                 t == CHOOSE t \in enough : \A u \in enough : t <= u
                 closer == {i \in idx : dist[i] < t}
             IN  [sure |-> closer,
                  tied |-> {i \in idx : dist[i] = t},
                  need |-> want - Cardinality(closer)]

\* The objects farthest from the query instead of the nearest.
NearestFarthest(objs, n, feat) ==
    FirstBy([i \in DOMAIN objs |-> 0 - FeatDistance2(objs[i], feat)], n)

\* tree.nearest_neighbor_iter(feat).take(n)
Nearest(objs, n, feat) ==
    FirstBy([i \in DOMAIN objs |-> FeatDistance2(objs[i], feat)], n)

\* .map(|x| x.label): how many taken objects carry each label (a tuple in the
\* order of ClassList), for every choice of the tied objects.
VoteCounts(objs, sel) ==
    LET have(S) == [j \in 1..4 |->
                       Cardinality({i \in S : objs[i].label = ClassList[j]})]
        sure == have(sel.sure)
        tied == have(sel.tied)
        some(j) == 0..Min(sel.need, tied[j])
    IN  {<<sure[1] + x[1], sure[2] + x[2], sure[3] + x[3], sure[4] + x[4]>> :
            x \in {y \in some(1) \X some(2) \X some(3) \X some(4) :
                      y[1] + y[2] + y[3] + y[4] = sel.need}}

\* .collect(): a vote list with the given number of votes per label. The order
\* of the votes varies with the order of the neighbours; consensus only counts
\* them.
Votes(cnt) ==
    LET rep(j) == [i \in 1..cnt[j] |-> ClassList[j]]
    IN  rep(1) \o rep(2) \o rep(3) \o rep(4)

\* The closure of predict: what it can return for one feature vector.
PredictOne(objs, n, feat) ==
    {consensus(Votes(cnt)) : cnt \in VoteCounts(objs, Nearest(objs, n, feat))}

\* The label lists predict can return on an initialised tree: one consensus
\* per feature vector, in input order.
PredictAll(objs, n, features) ==
    LET points == {features[i] : i \in 1..Len(features)}
        can == [p \in points |-> PredictOne(objs, n, p)]
    IN  {ls \in [1..Len(features) -> UNION {can[p] : p \in points}] :
            \A i \in 1..Len(features) : ls[i] \in can[features[i]]}

Ok(v) == [ok |-> TRUE, val |-> v, err |-> ""]
Err(msg) == [ok |-> FALSE, val |-> <<>>, err |-> msg]

\* A predict that answers with the pipeline's fallback when there is no tree.
predictFallback(t, n, features) ==
    IF t.some
    THEN {Ok(ls) : ls \in PredictAll(t.val, n, features)}
    ELSE {Ok([i \in 1..Len(features) |-> "Liquid"])}

\* A predict that refuses an index of fewer than n objects.
predictNeedsK(t, n, features) ==
    IF t.some /\ Len(t.val) >= n
    THEN {Ok(ls) : ls \in PredictAll(t.val, n, features)}
    ELSE {Err("The tree has not yet been initialised")}

\* KNN::predict: the results it can return.
predict(t, n, features) ==
    IF t.some
    THEN {Ok(ls) : ls \in PredictAll(t.val, n, features)}
    ELSE {Err("The tree has not yet been initialised")}

\* The training sets of the unit tests, for any two labels a and b: ClusterSize
\* vectors at zeros labelled a and ClusterSize at ones labelled b
\* (dual_classification); with messy, the first vector of each cluster is
\* moved to the other cluster (messy_classification).
ClusterFeatures(messy) ==
    [i \in 1..(2 * ClusterSize) |->
        IF messy /\ i = 1 THEN Ones
        ELSE IF messy /\ i = ClusterSize + 1 THEN Zeros
        ELSE IF i <= ClusterSize THEN Zeros ELSE Ones]
ClusterLabels(a, b) ==
    [i \in 1..(2 * ClusterSize) |-> IF i <= ClusterSize THEN a ELSE b]

\* simple_classification: one cluster, one label.
SimpleFeatures == [i \in 1..ClusterSize |-> Zeros]
SimpleLabels(a) == [i \in 1..ClusterSize |-> a]

\* The argument pairs fit is called with: every pair of a feature list and a
\* label list of up to MaxTrain items each (the lengths need not agree), and
\* the training sets of the unit tests.
FitInputs ==
    {[features |-> fs, labels |-> ls] :
        fs \in SeqsUpTo(TrainPoints, MaxTrain),
        ls \in SeqsUpTo(TrainLabels, MaxTrain)}
    \cup {[features |-> ClusterFeatures(m),
            labels |-> ClusterLabels(ab[1], ab[2])] :
             m \in BOOLEAN,
             ab \in {x \in Classes \X Classes : x[1] # x[2]}}
    \cup {[features |-> SimpleFeatures, labels |-> SimpleLabels(a)] :
             a \in Classes}

\* The feature lists predict is called with.
Queries == SeqsUpTo(QueryPoints, MaxQuery)

NoCall == [call |-> "none", query |-> <<>>, res |-> Ok(<<>>)]
NoFit == [called |-> FALSE, earlier |-> FALSE, features |-> <<>>,
          labels |-> <<>>]

\* The other specifications' variables at rest.
ConsIdle == votes = <<>> /\ verdict = "none"
ImageIdle == cell = <<>> /\ pa = <<>> /\ pb = <<>> /\ img = <<>>
CellIdle == box = <<>> /\ pt = <<>> /\ conv = <<>>
FrameIdle == frame = <<>> /\ out = <<>>
ShoelaceIdle == polygon = <<>> /\ area = <<>>
RingIdle == ring = <<>> /\ psi = <<>>
FromStrIdle == name = <<>> /\ parsed = <<>>
VoronoiIdle == vframe = <<>> /\ areas = <<>>
GsdIdle == file = <<>> /\ curr = 0
IterIdle == yielded = <<>>
MainIdle ==
    /\ args = <<>>
    /\ pc = "idle"
    /\ adaptor = <<>>
    /\ tasks = <<>>
    /\ chan = <<>>
    /\ writer = <<>>
    /\ written = <<>>
RestIdle ==
    /\ ShoelaceIdle
    /\ RingIdle
    /\ FromStrIdle
    /\ VoronoiIdle
    /\ GsdIdle
    /\ IterIdle
    /\ MainIdle

\* KNN::default()
Init ==
    /\ tree = None
    /\ k = DefaultK
    /\ lastFit = NoFit
    /\ ret = NoCall
    /\ ConsIdle
    /\ ImageIdle
    /\ CellIdle
    /\ FrameIdle
    /\ RestIdle

\* knn.fit(&features, &labels); fit returns ().
Fit(in) ==
    /\ tree' = fit(tree, in.features, in.labels)
    \* history: earlier records that this fit found an index holding objects
    /\ lastFit' = [called |-> TRUE,
                   earlier |-> tree.some /\ Len(tree.val) > 0,
                   features |-> in.features, labels |-> in.labels]
    /\ ret' = [call |-> "fit", query |-> <<>>, res |-> Ok(<<>>)]
    /\ UNCHANGED <<k, consVars, imgVars, cellVars, frameVars, restVars>>

\* knn.predict(&features); &self: the model is not changed.
Predict(q) ==
    /\ \E r \in predict(tree, k, q) :
           ret' = [call |-> "predict", query |-> q, res |-> r]
    /\ UNCHANGED <<tree, k, lastFit, consVars, imgVars, cellVars, frameVars, restVars>>

Next ==
    \/ \E in \in FitInputs : Fit(in)
    \/ \E q \in Queries : Predict(q)

Spec == Init /\ [][Next]_vars

\* C1: predict on a model on which fit was never called returns an error, for
\* every feature list (the empty one included), and no labels.
C1_PredictBeforeFit ==
    (ret.call = "predict" /\ ~lastFit.called) =>
        (~ret.res.ok /\ ret.res.val = <<>>
            /\ ret.res.err = "The tree has not yet been initialised")

C1_Witness ==
    ret.call = "predict" /\ ~lastFit.called /\ ret.query = <<>> /\ ~ret.res.ok

\* C2: whatever fit calls came before, the index holds exactly the objects of
\* the most recent fit, and predict answers from those objects alone.
C2_FitReplaces ==
    lastFit.called =>
        /\ tree.some
        /\ tree.val = Zip(lastFit.features, lastFit.labels)
        /\ ret.call = "predict" =>
               /\ ret.res.ok
               /\ ret.res.val \in
                      PredictAll(Zip(lastFit.features, lastFit.labels), k,
                                 ret.query)

C2_Witness ==
    /\ lastFit.earlier
    /\ Len(tree.val) > 0
    /\ ret.call = "predict" /\ ret.res.ok /\ Len(ret.query) > 0

\* C4: consensus of no votes is the fallback label Liquid, so predict on a
\* model fitted with an empty training set labels every query Liquid.
C4_EmptyVotesLiquid ==
    (ret.call = "predict" /\ ret.res.ok /\ tree.some /\ tree.val = <<>>) =>
        /\ consensus(<<>>) = "Liquid"
        /\ \A i \in 1..Len(ret.res.val) : ret.res.val[i] = "Liquid"

\* C5: fit called with lists of different lengths reports a shape mismatch to
\* its caller.
C5_FitShapeMismatch ==
    (ret.call = "fit" /\ Len(lastFit.features) # Len(lastFit.labels)) =>
        (~ret.res.ok /\ ret.res.err = "shape mismatch")

\* The labels of all objects of the index.
AllLabels(objs) == [i \in 1..Len(objs) |-> objs[i].label]

\* C6: with 1 <= m < k training samples predict succeeds and every answer is
\* the consensus of all m training labels; predict returns one label per
\* feature vector.
C6_FewerThanK ==
    /\ (ret.call = "predict" /\ tree.some /\ Len(tree.val) >= 1
            /\ Len(tree.val) < k) =>
           /\ ret.res.ok
           /\ \A i \in 1..Len(ret.query) :
                  ret.res.val[i] = consensus(AllLabels(tree.val))
    /\ (ret.call = "predict" /\ ret.res.ok) =>
           DOMAIN ret.res.val = 1..Len(ret.query)

C6_Witness ==
    /\ ret.call = "predict" /\ ret.res.ok
    /\ Len(tree.val) = 2
    /\ tree.val[1].label # tree.val[2].label
    /\ tree.val[1].features # tree.val[2].features
    /\ Len(ret.query) = 2

\* The least number of votes label c can get from the neighbours of feat,
\* over every order of the objects tied at the distance of the last
\* neighbour: all tied objects of other labels are taken first.
MinVotes(objs, n, feat, c) ==
    LET sel == Nearest(objs, n, feat)
        mine(S) == Cardinality({i \in S : objs[i].label = c})
        others == Cardinality(sel.tied) - mine(sel.tied)
    IN  mine(sel.sure) + (IF sel.need > others THEN sel.need - others ELSE 0)

\* C7: predict returns label c for a query whenever more than half of k
\* neighbours carry c under every order of ties; on the two clusters of the
\* unit tests (messy or not) every query at zeros gets the label of the zeros
\* cluster and every query at ones the label of the ones cluster.
C7_Majority ==
    (ret.call = "predict" /\ ret.res.ok) =>
        /\ \A i \in 1..Len(ret.query) : \A c \in Classes :
               2 * MinVotes(tree.val, k, ret.query[i], c) > k =>
                   ret.res.val[i] = c
        /\ \A messy \in BOOLEAN, a \in Classes, b \in Classes :
               (a # b /\ tree.val =
                    Zip(ClusterFeatures(messy), ClusterLabels(a, b))) =>
                   \A i \in 1..Len(ret.query) :
                       /\ ret.query[i] = Zeros => ret.res.val[i] = a
                       /\ ret.query[i] = Ones => ret.res.val[i] = b

C7_Witness ==
    /\ ret.call = "predict" /\ ret.res.ok
    /\ tree.val = Zip(ClusterFeatures(TRUE), ClusterLabels("P2GG", "P2"))
    /\ ret.query = <<Ones, Zeros>>
    /\ ret.res.val = <<"P2", "P2GG">>

(***************************************************************************)
(* Classes::consensus on its own: every vote list of up to MaxVotes votes. *)
(***************************************************************************)

MaxVotes == 5

KnnIdle == tree = None /\ k = DefaultK /\ lastFit = NoFit /\ ret = NoCall

InitConsensus ==
    /\ votes \in SeqsUpTo(Classes, MaxVotes)
    /\ verdict = "none"
    /\ KnnIdle
    /\ ImageIdle
    /\ CellIdle
    /\ FrameIdle
    /\ RestIdle

\* L::consensus(&values)
Consensus ==
    /\ verdict = "none"
    /\ verdict' = consensus(votes)
    /\ UNCHANGED <<votes, knnVars, imgVars, cellVars, frameVars, restVars>>

NextConsensus == Consensus

SpecConsensus == InitConsensus /\ [][NextConsensus]_vars

\* The position of a label in the enumeration.
ClassIndex(c) == CHOOSE j \in 0..3 : ClassList[j + 1] = c

\* C3: consensus of a vote list (here: one holding a vote) returns a label no
\* other label has more votes than, and among the labels with the most votes
\* the one of lowest index.
C3_LowestIndexOnTies ==
    (verdict # "none" /\ Len(votes) > 0) =>
        \A c \in Classes :
            /\ Count(votes, c) <= Count(votes, verdict)
            /\ Count(votes, c) = Count(votes, verdict) =>
                   ClassIndex(verdict) <= ClassIndex(c)

(***************************************************************************)
(* distance.rs and frame.rs: the periodic metric.                          *)
(*                                                                         *)
(* An f32 is modelled by the integer number of 1/Unit it holds. The cells  *)
(* and points below are dyadic (edges 2 and 4, tilts and coordinates       *)
(* multiples of 1/2), for which every sum, product and quotient of         *)
(* min_image is a multiple of 1/Unit: on them the f32 arithmetic of the    *)
(* program is exact and so is the model's.                                 *)
(***************************************************************************)

Unit == 8 * 8
Half == Unit \div 2

Mul(a, b) == (a * b) \div Unit
Div(a, b) == (a * Unit) \div b
\* f32::floor: the largest whole number not above x (\div rounds down).
Floor(x) == (x \div Unit) * Unit

\* make_fractional with the x shear of z taken as xz alone, without the
\* xy * yz term the y shear adds to it.
make_fractional_plain_xz(c, point) ==
    LET p0 == (point[1] + Mul(Half, c[1]))
               - (Mul(c[5], point[3]) + Mul(c[4], point[2]))
        p1 == (point[2] + Mul(Half, c[2])) - Mul(c[6], point[3])
        p2 == point[3] + Mul(Half, c[3])
    IN  <<Div(p0, c[1]), Div(p1, c[2]), Div(p2, c[3])>>

\* make_fractional; c[1..6] is cell[0..5], point[1..3] is point[0..2].
make_fractional(c, point) ==
    LET p0 == (point[1] + Mul(Half, c[1]))
               - (Mul(c[5] - Mul(c[6], c[4]), point[3]) + Mul(c[4], point[2]))
        p1 == (point[2] + Mul(Half, c[2])) - Mul(c[6], point[3])
        p2 == point[3] + Mul(Half, c[3])
    IN  <<Div(p0, c[1]), Div(p1, c[2]), Div(p2, c[3])>>

\* make_cartesian without the shift of the origin back to the cell centre.
make_cartesian_uncentred(c, point) ==
    LET q0 == Mul(point[1], c[1])
        q1 == Mul(point[2], c[2])
        q2 == Mul(point[3], c[3])
    IN  <<q0 + Mul(c[4], q1) + Mul(c[5], q2), q1 + Mul(c[6], q2), q2>>

\* make_cartesian without the yz shear of the y coordinate.
make_cartesian_no_yz(c, point) ==
    LET q0 == Mul(point[1] - Half, c[1])
        q1 == Mul(point[2] - Half, c[2])
        q2 == Mul(point[3] - Half, c[3])
    IN  <<q0 + Mul(c[4], q1) + Mul(c[5], q2), q1, q2>>

\* make_cartesian. p[0] is updated before p[1], so it reads the unsheared p[1].
make_cartesian(c, point) ==
    LET q0 == Mul(point[1] - Half, c[1])
        q1 == Mul(point[2] - Half, c[2])
        q2 == Mul(point[3] - Half, c[3])
    IN  <<q0 + Mul(c[4], q1) + Mul(c[5], q2), q1 + Mul(c[6], q2), q2>>

\* Truncation toward zero (a cast to an integer type) in place of floor.
Trunc(x) == IF x >= 0 THEN Floor(x) ELSE 0 - Floor(0 - x)

\* min_image that removes the whole part by truncation: a negative fractional
\* coordinate stays negative.
min_image_truncating(c, point) ==
    LET fractional == make_fractional(c, point)
    IN  make_cartesian(c, <<fractional[1] - Trunc(fractional[1]),
                            fractional[2] - Trunc(fractional[2]),
                            fractional[3] - Trunc(fractional[3])>>)

\* min_image
min_image(c, point) ==
    LET fractional == make_fractional(c, point)
    IN  make_cartesian(c, <<fractional[1] - Floor(fractional[1]),
                            fractional[2] - Floor(fractional[2]),
                            fractional[3] - Floor(fractional[3])>>)

Sub(a, b) == <<a[1] - b[1], a[2] - b[2], a[3] - b[3]>>
Neg(a) == <<0 - a[1], 0 - a[2], 0 - a[3]>>
\* The squared Euclidean norm.
Norm2(v) == Mul(v[1], v[1]) + Mul(v[2], v[2]) + Mul(v[3], v[3])

\* distance_2 on the plain difference of the two points, without min_image.
distance_2_plain(c, self, point) ==
    [disp |-> Sub(self, point), d2 |-> Norm2(Sub(self, point))]

\* Position::distance_2: the displacement handed to min_image and the squared
\* distance returned.
distance_2(c, self, point) ==
    LET distance == min_image(c, Sub(self, point))
    IN  [disp |-> distance, d2 |-> Norm2(distance)]

\* Half-coordinates: a coordinate is a multiple of 1/2 of magnitude at most
\* MaxHalf / 2.
MaxHalf == 2
Coords == {j * Half : j \in (0 - MaxHalf)..MaxHalf}
GridPoints == Coords \X Coords \X Coords
\* The stored positions: the cell centre, a point on the lower faces and an
\* interior point.
RefPoints == {<<0, 0, 0>>, <<0 - Unit, 0 - Unit, 0 - Unit>>,
              <<Unit, Half, 0 - Half>>}
\* Cells (Lx, Ly, Lz, xy, xz, yz) with positive edges and tilt factors of
\* magnitude at most 1/2.
Cells == {<<lx, 2 * Unit, 2 * Unit, xy, xz, yz>> :
             lx \in {2 * Unit, 4 * Unit}, xy \in {0 - Half, 0, Half},
             xz \in {0, Half}, yz \in {0, Half}}

NoImages == [ab |-> None, ba |-> None, again |-> None]

InitImage ==
    /\ cell \in Cells
    /\ pa \in RefPoints
    /\ pb \in GridPoints
    /\ img = NoImages
    /\ KnnIdle
    /\ ConsIdle
    /\ CellIdle
    /\ FrameIdle
    /\ RestIdle

\* Position{point: pa, cell}.distance_2(&pb)
DistanceAB ==
    /\ ~img.ab.some
    /\ img' = [img EXCEPT !.ab = Some(distance_2(cell, pa, pb))]
    /\ UNCHANGED <<cell, pa, pb, knnVars, consVars, cellVars, frameVars, restVars>>

\* Position{point: pb, cell}.distance_2(&pa)
DistanceBA ==
    /\ ~img.ba.some
    /\ img' = [img EXCEPT !.ba = Some(distance_2(cell, pb, pa))]
    /\ UNCHANGED <<cell, pa, pb, knnVars, consVars, cellVars, frameVars, restVars>>

\* min_image applied to a displacement min_image returned.
ImageAgain ==
    /\ img.ab.some
    /\ ~img.again.some
    /\ img' = [img EXCEPT !.again = Some(min_image(cell, img.ab.val.disp))]
    /\ UNCHANGED <<cell, pa, pb, knnVars, consVars, cellVars, frameVars, restVars>>

NextImage == DistanceAB \/ DistanceBA \/ ImageAgain

SpecImage == InitImage /\ [][NextImage]_vars

Abs(x) == IF x < 0 THEN 0 - x ELSE x

\* Positive edges, and each tilt no more than half a cell edge of shear.
ValidCell(c) ==
    /\ c[1] > 0 /\ c[2] > 0 /\ c[3] > 0
    /\ 2 * Abs(Mul(c[4], c[2])) <= c[1]
    /\ 2 * Abs(Mul(c[5], c[3])) <= c[1]
    /\ 2 * Abs(Mul(c[6], c[3])) <= c[2]

\* v moved by n[1] A + n[2] B + n[3] C, for the lattice vectors
\* A = (Lx, 0, 0), B = (xy Ly, Ly, 0), C = (xz Lz, yz Lz, Lz).
Shifted(c, v, n) ==
    <<v[1] + n[1] * c[1] + n[2] * Mul(c[4], c[2]) + n[3] * Mul(c[5], c[3]),
      v[2] + n[2] * c[2] + n[3] * Mul(c[6], c[3]),
      v[3] + n[3] * c[3]>>

MaxShift == 1
Shifts == LET r == (0 - MaxShift)..MaxShift IN r \X r \X r

\* C8: the displacement used for the distance of a and b is no longer than
\* any periodic image of a - b.
C8_ShortestImage ==
    (img.ab.some /\ ValidCell(cell)) =>
        \A n \in Shifts :
            img.ab.val.d2 <= Norm2(Shifted(cell, Sub(pa, pb), n))

\* v has a whole fractional coordinate: it lies on a face of the cell.
OnFace(c, v) == \E i \in 1..3 : make_fractional(c, v)[i] % Unit = 0

\* C9 as stated: the displacement from b to a is the negation of the
\* displacement from a to b, for all a and b.
C9_Antisymmetric ==
    (img.ab.some /\ img.ba.some) =>
        img.ab.val.disp = Neg(img.ba.val.disp)

\* C9 as amended: the displacement from b to a is the negation of the
\* displacement from a to b whenever a - b does not lie on a face of the cell.
C9_AntisymmetricOffFace ==
    (img.ab.some /\ img.ba.some /\ ~OnFace(cell, Sub(pa, pb))) =>
        img.ab.val.disp = Neg(img.ba.val.disp)

C9_Witness ==
    /\ img.ab.some /\ img.ba.some
    /\ ~OnFace(cell, Sub(pa, pb))
    /\ cell[4] # 0 /\ cell[6] # 0
    /\ img.ab.val.disp # Sub(pa, pb)

\* v has all its fractional coordinates in [0, 1).
InsideCell(c, v) ==
    \A i \in 1..3 :
        make_fractional(c, v)[i] >= 0 /\ make_fractional(c, v)[i] < Unit

\* C10: min_image applied to its own result returns that result, and a point
\* inside the cell is returned unchanged.
C10_Idempotent ==
    /\ img.again.some => img.again.val = img.ab.val.disp
    /\ (img.ab.some /\ InsideCell(cell, Sub(pa, pb))) =>
           img.ab.val.disp = Sub(pa, pb)

C10_Witness ==
    /\ img.again.some
    /\ cell[4] # 0 /\ cell[5] # 0 /\ cell[6] # 0
    /\ img.ab.val.disp # Sub(pa, pb)
    /\ img.again.val = img.ab.val.disp

\* C17: the squared distance of a stored position and a query point does not
\* change when the query point is moved by whole multiples of the cell's edge
\* vectors; a point and its image one cell length away are at distance 0, and
\* in the cell of edge 2 a point one unit away is at squared distance 1.
C17_PeriodicDistance ==
    img.ab.some =>
        /\ \A n \in Shifts :
               distance_2(cell, pa, Shifted(cell, pb, n)).d2 = img.ab.val.d2
        /\ pa = pb => img.ab.val.d2 = 0
        /\ (cell = <<2 * Unit, 2 * Unit, 2 * Unit, 0, 0, 0>>
               /\ pa = <<0, 0, 0>> /\ pb = <<Unit, 0, 0>>) =>
               img.ab.val.d2 = Unit

C17_Witness ==
    /\ img.ab.some
    /\ cell[4] # 0 /\ cell[5] # 0 /\ cell[6] # 0
    /\ img.ab.val.disp # Sub(pa, pb)
    /\ img.ab.val.d2 > 0
    /\ distance_2(cell, pa, Shifted(cell, pb, <<1, 0 - 1, 1>>)).d2
           = img.ab.val.d2

(***************************************************************************)
(* distance.rs: the coordinate conversions on their own, applied to a      *)
(* point (not a displacement) of a cell of any tilt.                       *)
(***************************************************************************)

\* A coordinate of the point is a multiple of 1/2 of magnitude at most
\* MaxPointHalf / 2.
MaxPointHalf == 3
PointCoords == {j * Half : j \in (0 - MaxPointHalf)..MaxPointHalf}
Points == PointCoords \X PointCoords \X PointCoords

\* Cells sheared by up to a whole edge (the tilt range of the round-trip
\* tests, -1 to 1), with edges of different lengths.
SkewCells == {<<2 * Unit, ly, 2 * Unit, xy, xz, yz>> :
                 ly \in {2 * Unit, 4 * Unit}, xy \in {0 - Unit, Unit},
                 xz \in {0 - Half, Unit}, yz \in {0 - Unit, Half}}

\* The cell [2., 2., 2., 0., 0., 0.] of the unit tests.
Cube2 == <<2 * Unit, 2 * Unit, 2 * Unit, 0, 0, 0>>

NoConv == [image |-> None, frac |-> None, cart |-> None, back |-> None]

InitCell ==
    /\ box \in Cells \cup SkewCells
    /\ pt \in Points
    /\ conv = NoConv
    /\ KnnIdle
    /\ ConsIdle
    /\ ImageIdle
    /\ FrameIdle
    /\ RestIdle

\* min_image(&cell, &point)
MinImage ==
    /\ ~conv.image.some
    /\ conv' = [conv EXCEPT !.image = Some(min_image(box, pt))]
    /\ UNCHANGED <<box, pt, knnVars, consVars, imgVars, frameVars, restVars>>

\* make_fractional(&cell, &min_image_point)
FractionalOfImage ==
    /\ conv.image.some
    /\ ~conv.frac.some
    /\ conv' = [conv EXCEPT
                   !.frac = Some(make_fractional(box, conv.image.val))]
    /\ UNCHANGED <<box, pt, knnVars, consVars, imgVars, frameVars, restVars>>

\* make_cartesian(&cell, &point): the point is read as fractional
\* coordinates.
Cartesian ==
    /\ ~conv.cart.some
    /\ conv' = [conv EXCEPT !.cart = Some(make_cartesian(box, pt))]
    /\ UNCHANGED <<box, pt, knnVars, consVars, imgVars, frameVars, restVars>>

\* make_fractional(&cell, &make_cartesian(&cell, &point))
FractionalOfCartesian ==
    /\ conv.cart.some
    /\ ~conv.back.some
    /\ conv' = [conv EXCEPT
                   !.back = Some(make_fractional(box, conv.cart.val))]
    /\ UNCHANGED <<box, pt, knnVars, consVars, imgVars, frameVars, restVars>>

NextCell ==
    \/ MinImage
    \/ FractionalOfImage
    \/ Cartesian
    \/ FractionalOfCartesian

SpecCell == InitCell /\ [][NextCell]_vars

\* C11: for every point, inside or outside the cell, and every valid cell the
\* fractional coordinates of min_image(cell, p) lie in [0, 1] on the three
\* axes, hence within (-eps, 1] for every eps > 0.
C11_WrappedFractionBounded ==
    (conv.frac.some /\ ValidCell(box)) =>
        \A i \in 1..3 : conv.frac.val[i] >= 0 /\ conv.frac.val[i] <= Unit

C11_Witness ==
    /\ conv.frac.some
    /\ ValidCell(box)
    /\ box[4] # 0 /\ box[5] # 0 /\ box[6] # 0
    /\ ~InsideCell(box, pt)
    /\ make_fractional(box, pt)[1] < 0

Untilted(c) == c[4] = 0 /\ c[5] = 0 /\ c[6] = 0

\* The wrapped points of the unit tests, for the cell (2,2,2,0,0,0):
\* <<point, min_image of the point>>.
WrapCases ==
    {<<<<Unit, 0, 0>>, <<0 - Unit, 0, 0>>>>,
     <<<<0, Unit, 0>>, <<0, 0 - Unit, 0>>>>,
     <<<<0, 0, Unit>>, <<0, 0, 0 - Unit>>>>,
     <<<<3 * Half, 3 * Half, 3 * Half>>, <<0 - Half, 0 - Half, 0 - Half>>>>,
     <<<<0, 0, 0>>, <<0, 0, 0>>>>,
     <<<<0 - Unit, 0, 0>>, <<0 - Unit, 0, 0>>>>}

\* C12: for an untilted cell with edges L every coordinate of min_image lies
\* in [-L/2, L/2) and differs from the coordinate of the point by a whole
\* multiple of L; for the cell (2,2,2,0,0,0) the points of WrapCases are
\* mapped as listed.
C12_CentredHalfOpen ==
    (conv.image.some /\ Untilted(box)) =>
        /\ \A i \in 1..3 :
               /\ 2 * conv.image.val[i] >= 0 - box[i]
               /\ 2 * conv.image.val[i] < box[i]
               /\ (conv.image.val[i] - pt[i]) % box[i] = 0
        /\ \A w \in WrapCases :
               (box = Cube2 /\ pt = w[1]) => conv.image.val = w[2]

C12_Witness ==
    /\ conv.image.some
    /\ box = Cube2
    /\ pt = <<3 * Half, 3 * Half, 3 * Half>>
    /\ conv.image.val = <<0 - Half, 0 - Half, 0 - Half>>

\* C13: make_fractional undoes make_cartesian without wrapping, for every
\* cell with positive edges and any tilt factors and every fractional point,
\* inside or outside [0,1]^3.
C13_RoundTrip ==
    conv.back.some => conv.back.val = pt

C13_Witness ==
    /\ conv.back.some
    /\ box[4] # 0 /\ box[5] # 0 /\ box[6] # 0
    /\ box[2] # box[1]
    /\ pt[1] < 0 /\ pt[2] > Unit /\ pt[3] > Unit
    /\ conv.cart.val # pt
    /\ conv.back.val = pt

(***************************************************************************)
(* frame.rs: the Frame and its neighbour queries.                          *)
(*                                                                         *)
(* The neighbour tree is an rstar R-tree of Position objects. Its queries  *)
(* walk the tree from the root: a Position is measured by                  *)
(* Position::distance_2 (periodic), a node of the tree by the plain        *)
(* Euclidean distance to its envelope, the box around the points           *)
(* Position::envelope gives (AABB::from_point(self.point)).                *)
(***************************************************************************)

\* RTree<Position> has the default parameters: at most 6 children per node.
NodeSize == 6

MaxParticles == 3
MaxK == 3

Max(a, b) == IF a >= b THEN a ELSE b

\* Positions on the x axis of the cell (2,2,2,0,0,0): x = -7/8, -1/4, 1/8
\* and 7/8. No two of them are equally far from a third; -7/8 and 7/8 are 1/4
\* apart across the periodic boundary.
Eighth == Unit \div 8
Sites == {<<0 - 7 * Eighth, 0, 0>>, <<0 - 2 * Eighth, 0, 0>>,
          <<Eighth, 0, 0>>, <<7 * Eighth, 0, 0>>}
\* Orientations: rotations about z by a multiple of 45 degrees.
Turns == {0, 1, 2}

\* A frame of NodeSize + 1 particles in the cell (2,2,2,0,0,0), listed along
\* x: x = -7/8, -3/4, -1/4, -1/8, 1/8, 1/4, 7/8, the sixth raised to
\* z = 1/4. No two particles are equally far from a third. The first and the
\* last are 1/4 apart across the periodic boundary.
RowPositions ==
    <<<<0 - 7 * Eighth, 0, 0>>, <<0 - 6 * Eighth, 0, 0>>,
      <<0 - 2 * Eighth, 0, 0>>, <<0 - Eighth, 0, 0>>, <<Eighth, 0, 0>>,
      <<2 * Eighth, 0, 2 * Eighth>>, <<7 * Eighth, 0, 0>>>>
\* Two particles at the same place, and a third across the boundary.
TwinPositions ==
    <<<<7 * Eighth, 0, 0>>, <<7 * Eighth, 0, 0>>, <<0 - 7 * Eighth, 0, 0>>>>

\* Position::envelope and the envelope of a node: the smallest box holding
\* the points; its distance_2 to a query point is the plain squared
\* Euclidean distance from the point to the box.
EnvelopeDistance2(pts, q) ==
    LET lo(a) == CHOOSE x \in {p[a] : p \in pts} :
                     \A p \in pts : x <= p[a]
        hi(a) == CHOOSE x \in {p[a] : p \in pts} :
                     \A p \in pts : x >= p[a]
        gap(a) == Max(Max(lo(a) - q[a], q[a] - hi(a)), 0)
    IN  Norm2(<<gap(1), gap(2), gap(3)>>)

\* The runs of consecutive particles cut after the particles of cuts.
Runs(n, cuts) ==
    {{i \in 1..n : /\ i <= c
                    /\ \A d \in cuts \cup {0} : d < c => d < i} :
        c \in cuts \cup {n}}

\* RTree::bulk_load(array_to_points(&position, &cell)): the nodes under the
\* root. Up to NodeSize objects are children of the root itself (no nodes);
\* more are split among nodes of at most NodeSize objects that lie next to
\* each other. Which split is made is not fixed by the interface of the
\* tree: every split into runs is a possible outcome.
bulk_load(position) ==
    LET n == Len(position)
    IN  IF n <= NodeSize THEN {{}}
        ELSE {Runs(n, cuts) : cuts \in
                 {c \in SUBSET (1..(n - 1)) :
                     /\ c # {}
                     /\ \A r \in Runs(n, c) : Cardinality(r) <= NodeSize}}

\* The children of the root that are objects.
RootLeaves(f) == IF f.nodes = {} THEN 1..Len(f.position) ELSE {}

\* Frame::from(GSDFrame)
Frames(position, orientation) ==
    {[cell |-> Cube2, position |-> position, orientation |-> orientation,
      nodes |-> t] : t \in bulk_load(position)}

\* The distance the tree gives object j for the query point q.
LeafDistance2(f, j, q) == distance_2(f.cell, f.position[j], q).d2
\* The distance the tree gives the node g for the query point q.
NodeDistance2(f, g, q) == EnvelopeDistance2({f.position[j] : j \in g}, q)

\* nearest_neighbor_iter(q).take(n).map(|i| i.index): the index lists it can
\* yield. The iterator keeps the pending children in a heap ordered by their
\* distance; it pops the least one, replaces a node by its children and
\* yields an object. Entries of equal distance are popped in any order.
\* leaves and nodes are the pending entries of the heap.
RECURSIVE NearestWalk(_, _, _, _, _)
NearestWalk(f, q, leaves, nodes, n) ==
    IF n = 0 \/ (leaves = {} /\ nodes = {}) THEN {<<>>}
    ELSE LET dl == [j \in leaves |-> LeafDistance2(f, j, q)]
             dn == [g \in nodes |-> NodeDistance2(f, g, q)]
             all == {dl[j] : j \in leaves} \cup {dn[g] : g \in nodes}
             least == CHOOSE d \in all : \A e \in all : d <= e
         IN  UNION ({{<<j - 1>> \o rest :
                        rest \in NearestWalk(f, q, leaves \ {j}, nodes,
                                              n - 1)} :
                       j \in {i \in leaves : dl[i] = least}}
                    \cup
                    {NearestWalk(f, q, leaves \cup g, nodes \ {g}, n) :
                       g \in {h \in nodes : dn[h] = least}})

\* self.neighbour_tree.nearest_neighbor_iter(point).take(n).map(|i| i.index)
NearestOf(f, q, n) == NearestWalk(f, q, RootLeaves(f), f.nodes, n)

\* The results a function over the particles can have, given the results
\* can[i] possible for each particle: one per particle, in particle order.
RECURSIVE PerParticleUpTo(_, _)
PerParticleUpTo(can, n) ==
    IF n = 0 THEN {<<>>}
    ELSE {Append(r, x) : r \in PerParticleUpTo(can, n - 1), x \in can[n]}

PerParticle(can) == PerParticleUpTo(can, Len(can))

\* Frame::neighbours_n: per particle, the index lists the inner iterator can
\* yield.
neighbours_n(f, n) ==
    [i \in 1..Len(f.position) |-> NearestOf(f, f.position[i], n)]

\* Position::distance_2_if_less_or_equal
distance_2_if_less_or_equal(c, self, point, max_distance_2) ==
    LET d == distance_2(c, self, point).d2
    IN  IF d < max_distance_2 THEN Some(d) ELSE None

\* locate_within_distance(q, max2).map(|i| i.index): the indices it yields
\* (in an order the tree does not fix: a set). A node is entered when the
\* distance of its envelope is at most max2, the root included; an object is
\* yielded when distance_2_if_less_or_equal returns Some.
LocateWithin(f, q, max2) ==
    LET every == 1..Len(f.position)
        entered == IF every = {} \/ NodeDistance2(f, every, q) > max2
                   THEN {}
                   ELSE RootLeaves(f) \cup
                        UNION {g \in f.nodes : NodeDistance2(f, g, q) <= max2}
    IN  {j - 1 : j \in {i \in entered :
            distance_2_if_less_or_equal(f.cell, f.position[i], q, max2).some}}

\* Frame::neighbours_cutoff: per particle, the indices the inner iterator
\* yields.
neighbours_cutoff(f, cutoff) ==
    [i \in 1..Len(f.position) |->
        LocateWithin(f, f.position[i], Mul(cutoff, cutoff))]

(***************************************************************************)
(* order.rs. An f32 result is kept as the exact quotient num / den, or as  *)
(* NaN. Orientations are rotations about z by multiples of 45 degrees, for *)
(* which cos^2 of the angle between two of them is 1, 1/2 or 0.            *)
(***************************************************************************)

NaN == [nan |-> TRUE, num |-> 0, den |-> 0]
\* The f32 quotient a / b of two non-negative numbers, b = n as f32:
\* 0 / 0 is NaN.
Quotient(a, b) ==
    IF b = 0 /\ a = 0 THEN NaN ELSE [nan |-> FALSE, num |-> a, den |-> b]

RECURSIVE SumSeq(_)
SumSeq(xs) == IF xs = <<>> THEN 0 ELSE Head(xs) + SumSeq(Tail(xs))

\* reference.angle_to(&i).cos().powi(2), in units of 1/Unit: the angle
\* between two rotations about z is the difference of their angles.
Cos2(reference, i) ==
    LET d == Abs(reference - i) % 4
    IN  IF d = 0 THEN Unit ELSE IF d = 2 THEN 0 ELSE Half

\* order.rs num_neighbours
num_neighbours(f, cutoff) ==
    [i \in 1..Len(f.position) |-> Cardinality(neighbours_cutoff(f, cutoff)[i])]

\* orientational_order_iter: the fold of cos^2 from 0., divided by
\* num_neighbours as f32.
orientational_order_iter(reference, neighs, n) ==
    Quotient(SumSeq([m \in 1..Len(neighs) |-> Cos2(reference, neighs[m])]),
             n * Unit)

\* orientational_order, for the index lists neighs the iterators of
\* frame.neighbours_n(num_neighbours) yield. neighs[i][m] is a Rust index
\* (from 0).
orientational_order(f, neighs, n) ==
    [i \in 1..Len(f.position) |->
        orientational_order_iter(
            f.orientation[i],
            [m \in 1..Len(neighs[i]) |-> f.orientation[neighs[i][m] + 1]],
            n)]

\* Rotation2::rotation_between(&(0, 1), &v.xy()).angle(), in quarter turns
\* counter-clockwise, for v along an axis; the zero vector has no direction
\* and gives the identity rotation.
QuarterTurns(v) ==
    IF v[1] = 0 /\ v[2] = 0 THEN 0
    ELSE IF v[2] = 0 THEN (IF v[1] > 0 THEN 0 - 1 ELSE 1)
    ELSE IF v[2] > 0 THEN 0 ELSE 2

\* UnitComplex::from_angle of a number of quarter turns: <<re, im>>.
FromQuarterTurns(a) ==
    LET t == a % 4
    IN  IF t = 0 THEN <<1, 0>>
        ELSE IF t = 1 THEN <<0, 1>>
        ELSE IF t = 2 THEN <<0 - 1, 0>>
        ELSE <<0, 0 - 1>>

\* hexatic_order_iter adding up the unit complex numbers without dividing
\* each by num_neighbours.
hexatic_order_iter_sum(reference, neighs, n) ==
    LET c == [m \in 1..Len(neighs) |->
                 FromQuarterTurns(QuarterTurns(Sub(neighs[m], reference)) * n)]
    IN  [re |-> SumSeq([m \in 1..Len(neighs) |-> c[m][1]]),
         im |-> SumSeq([m \in 1..Len(neighs) |-> c[m][2]]),
         den |-> 1]

\* hexatic_order_iter: the complex number whose norm it returns is
\* (re + i im) / den. Every term is divided by num_neighbours as f32; with no
\* neighbours the fold returns Complex::zero().
hexatic_order_iter(reference, neighs, n) ==
    LET c == [m \in 1..Len(neighs) |->
                 FromQuarterTurns(QuarterTurns(Sub(neighs[m], reference)) * n)]
    IN  [re |-> SumSeq([m \in 1..Len(neighs) |-> c[m][1]]),
         im |-> SumSeq([m \in 1..Len(neighs) |-> c[m][2]]),
         den |-> IF neighs = <<>> THEN 1 ELSE n]

\* hexatic_order, for the index lists neighs the iterators of
\* frame.neighbours_n(num_neighbours) yield.
hexatic_order(f, neighs, n) ==
    [i \in 1..Len(f.position) |->
        hexatic_order_iter(
            f.position[i],
            [m \in 1..Len(neighs[i]) |-> f.position[neighs[i][m] + 1]],
            n)]

(***************************************************************************)
(* One query on a frame: every frame of up to MaxParticles particles on    *)
(* different sites, the frame with two particles at one place, and the row *)
(* of NodeSize + 1 particles under every tree the bulk load can build.     *)
(***************************************************************************)

\* The cutoffs of neighbours_cutoff: 0, 3/8 and 1.
Cutoffs == {0, 3 * (Unit \div 8), Unit}

\* Position lists of up to MaxParticles particles on different sites.
Placements ==
    {p \in SeqsUpTo(Sites, MaxParticles) :
        \A i \in 1..Len(p) : \A j \in 1..Len(p) : p[i] = p[j] => i = j}

InitFrames ==
    UNION {Frames(p, o) : p \in Placements \cup {TwinPositions},
                          o \in SeqsUpTo(Turns, MaxParticles)}
    \cup Frames(RowPositions, [i \in 1..Len(RowPositions) |-> 0])

NoQuery == [call |-> "none", arg |-> 0, neighs |-> <<>>, val |-> <<>>]

InitFrame ==
    /\ frame \in {f \in InitFrames : Len(f.position) = Len(f.orientation)}
    /\ out = NoQuery
    /\ KnnIdle
    /\ ConsIdle
    /\ ImageIdle
    /\ CellIdle
    /\ RestIdle

\* frame.neighbours_n(n), every inner iterator collected
NeighboursN(n) ==
    /\ out.call = "none"
    /\ \E r \in PerParticle(neighbours_n(frame, n)) :
           out' = [call |-> "neighbours_n", arg |-> n, neighs |-> r,
                   val |-> r]
    /\ UNCHANGED <<frame, knnVars, consVars, imgVars, cellVars, restVars>>

\* frame.neighbours_cutoff(cutoff), every inner iterator collected
NeighboursCutoff(cutoff) ==
    /\ out.call = "none"
    /\ out' = [call |-> "neighbours_cutoff", arg |-> cutoff,
               neighs |-> neighbours_cutoff(frame, cutoff),
               val |-> neighbours_cutoff(frame, cutoff)]
    /\ UNCHANGED <<frame, knnVars, consVars, imgVars, cellVars, restVars>>

\* num_neighbours(&frame, cutoff)
NumNeighbours(cutoff) ==
    /\ out.call = "none"
    /\ out' = [call |-> "num_neighbours", arg |-> cutoff,
               neighs |-> neighbours_cutoff(frame, cutoff),
               val |-> num_neighbours(frame, cutoff)]
    /\ UNCHANGED <<frame, knnVars, consVars, imgVars, cellVars, restVars>>

\* orientational_order(&frame, n); neighs records what the iterators of
\* neighbours_n yielded to it.
OrientationalOrder(n) ==
    /\ out.call = "none"
    /\ \E r \in PerParticle(neighbours_n(frame, n)) :
           out' = [call |-> "orientational_order", arg |-> n, neighs |-> r,
                   val |-> orientational_order(frame, r, n)]
    /\ UNCHANGED <<frame, knnVars, consVars, imgVars, cellVars, restVars>>

\* hexatic_order(&frame, n)
HexaticOrder(n) ==
    /\ out.call = "none"
    /\ \E r \in PerParticle(neighbours_n(frame, n)) :
           out' = [call |-> "hexatic_order", arg |-> n, neighs |-> r,
                   val |-> hexatic_order(frame, r, n)]
    /\ UNCHANGED <<frame, knnVars, consVars, imgVars, cellVars, restVars>>

NextFrame ==
    \/ \E n \in 0..MaxK : NeighboursN(n)
    \/ \E c \in Cutoffs : NeighboursCutoff(c)
    \/ \E c \in Cutoffs : NumNeighbours(c)
    \/ \E n \in 0..MaxK : OrientationalOrder(n)
    \/ \E n \in 0..MaxK : HexaticOrder(n)

SpecFrame == InitFrame /\ [][NextFrame]_vars

\* The squared periodic distance of the points a and b: the least squared
\* length among the periodic images of a - b.
ShortestD2(c, a, b) ==
    LET all == {Norm2(Shifted(c, Sub(a, b), n)) : n \in Shifts}
    IN  CHOOSE d \in all : \A e \in all : d <= e

\* The squared periodic distance of the particles of Rust index i and j.
ParticleD2(f, i, j) == ShortestD2(f.cell, f.position[i + 1], f.position[j + 1])

\* The index list s names min(n, N) different particles of the frame, in
\* non-decreasing order of periodic distance from particle i, and no
\* particle left out is strictly closer than one it names.
NearestInOrder(f, i, s, n) ==
    LET N == Len(f.position)
    IN  /\ Len(s) = Min(n, N)
        /\ \A m \in 1..Len(s) : s[m] \in 0..(N - 1)
        /\ \A m \in 1..Len(s) : \A l \in 1..Len(s) : s[m] = s[l] => m = l
        /\ \A m \in 1..(Len(s) - 1) :
               ParticleD2(f, i, s[m]) <= ParticleD2(f, i, s[m + 1])
        /\ \A j \in 0..(N - 1) :
               (\A m \in 1..Len(s) : s[m] # j) =>
                   \A m \in 1..Len(s) :
                       ParticleD2(f, i, j) >= ParticleD2(f, i, s[m])

\* C14: neighbours_n(k) yields one index list per particle, the i-th for
\* particle i, each naming min(k, N) different particles in non-decreasing
\* order of periodic distance from particle i with no closer particle left
\* out; for k = 0 every list is empty.
C14_NearestInPeriodicOrder ==
    out.call = "neighbours_n" =>
        /\ Len(out.val) = Len(frame.position)
        /\ \A i \in 1..Len(out.val) :
               /\ NearestInOrder(frame, i - 1, out.val[i], out.arg)
               /\ out.arg = 0 => out.val[i] = <<>>

\* C15: for k >= 1 the index list of particle i does not name particle i.
C15_SelfExcluded ==
    (out.call = "neighbours_n" /\ out.arg >= 1) =>
        \A i \in 1..Len(out.val) :
            \A m \in 1..Len(out.val[i]) : out.val[i][m] # i - 1

\* C16: neighbours_cutoff(r) yields for particle i exactly the particles at
\* squared periodic distance strictly less than r * r (none when no particle
\* qualifies), and num_neighbours returns their number for each of the N
\* particles.
C16_CutoffExact ==
    LET N == Len(frame.position)
        within(i) == {j \in 0..(N - 1) :
                        ParticleD2(frame, i, j) < Mul(out.arg, out.arg)}
    IN  /\ out.call = "neighbours_cutoff" =>
               /\ Len(out.val) = N
               /\ \A i \in 1..N : out.val[i] = within(i - 1)
        /\ out.call = "num_neighbours" =>
               /\ Len(out.val) = N
               /\ \A i \in 1..N : out.val[i] = Cardinality(within(i - 1))

\* C18: orientational_order of a particle with no neighbours (k = 0, or an
\* empty index list) is exactly 0, not NaN.
C18_EmptyMeanZero ==
    out.call = "orientational_order" =>
        \A i \in 1..Len(out.val) :
            out.neighs[i] = <<>> =>
                (~out.val[i].nan /\ out.val[i].num = 0 /\ out.val[i].den > 0)

\* The sum of cos^2 of the angles between particle i (from 1) and the
\* particles of the index list s.
SumCos2(f, i, s) ==
    SumSeq([m \in 1..Len(s) |->
               Cos2(f.orientation[i], f.orientation[s[m] + 1])])

\* C19: for k >= 1 orientational_order of a particle is the arithmetic mean
\* of cos^2 over the neighbours returned for it, so it is 1 when every
\* returned neighbour has the orientation of the particle, also in frames of
\* fewer than k particles.
C19_MeanOverReturned ==
    (out.call = "orientational_order" /\ out.arg >= 1) =>
        \A i \in 1..Len(out.val) :
            LET s == out.neighs[i]
                v == out.val[i]
            IN  /\ ~v.nan
                /\ v.num * Len(s) * Unit = SumCos2(frame, i, s) * v.den
                /\ (\A m \in 1..Len(s) :
                        frame.orientation[s[m] + 1] = frame.orientation[i])
                       => v.num = v.den

\* C20: for k >= 1 orientational_order and hexatic_order return one value
\* per particle and every value lies in [0, 1].
C20_OrderRange ==
    /\ (out.call = "orientational_order" /\ out.arg >= 1) =>
           /\ Len(out.val) = Len(frame.position)
           /\ \A i \in 1..Len(out.val) :
                  /\ ~out.val[i].nan
                  /\ out.val[i].den > 0
                  /\ out.val[i].num >= 0
                  /\ out.val[i].num <= out.val[i].den
    /\ (out.call = "hexatic_order" /\ out.arg >= 1) =>
           /\ Len(out.val) = Len(frame.position)
           /\ \A i \in 1..Len(out.val) :
                  LET v == out.val[i]
                  IN  /\ v.den > 0
                      /\ v.re * v.re + v.im * v.im <= v.den * v.den

C20_Witness ==
    /\ out.call = "hexatic_order"
    /\ out.arg = 3
    /\ Len(frame.position) = 3
    /\ \E i \in 1..3 :
           LET v == out.val[i]
           IN  /\ v.im # 0
               /\ v.re * v.re + v.im * v.im < v.den * v.den

\* ---------------------------------------------------------------------
\* SpecShoelace: the polygon area of voronoi.rs.
\* ---------------------------------------------------------------------

CoreIdle == KnnIdle /\ ConsIdle /\ ImageIdle /\ CellIdle /\ FrameIdle

\* The longest polygon handed to shoelace.
MaxVertices == 3

\* voronoi::Point, coordinates in units of 1/Unit.
Vertex(x, y) == [x |-> x * Unit, y |-> y * Unit]
VertexXs == {0 - 1, 0, 2, 4}
VertexYs == {1, 3, 7}
Vertices == {Vertex(x, y) : x \in VertexXs, y \in VertexYs}
Polygons == SeqsUpTo(Vertices, MaxVertices)

\* The polygon of the test simple_area.
simple_area == <<Vertex(0, 1), Vertex(2, 3), Vertex(4, 7)>>

\* Iterator::zip: pairs up to the shorter of the two.
ZipPairs(a, b) == [i \in 1..Min(Len(a), Len(b)) |-> <<a[i], b[i]>>]

\* polygon.iter().cycle().skip(1), as far as zip reads it: cycling an
\* empty iterator yields nothing.
CycleSkip1(poly) == IF poly = <<>> THEN <<>> ELSE Tail(poly) \o <<Head(poly)>>

\* (next.x() + curr.x()) * (next.y() - curr.y())
ShoelaceTerm(vcurr, vnext) == Mul(vnext.x + vcurr.x, vnext.y - vcurr.y)

\* The pairing without cycle(): the closing edge is left out.
shoelace_open(poly) ==
    LET pairs == ZipPairs(poly, IF poly = <<>> THEN <<>> ELSE Tail(poly))
    IN  Div(Abs(SumSeq([i \in 1..Len(pairs) |->
                           ShoelaceTerm(pairs[i][1], pairs[i][2])])),
            2 * Unit)

shoelace(poly) ==
    LET pairs == ZipPairs(poly, CycleSkip1(poly))
    IN  Div(Abs(SumSeq([i \in 1..Len(pairs) |->
                           ShoelaceTerm(pairs[i][1], pairs[i][2])])),
            2 * Unit)

InitShoelace ==
    /\ polygon \in Polygons
    /\ area = <<>>
    /\ CoreIdle
    /\ RingIdle
    /\ FromStrIdle
    /\ VoronoiIdle
    /\ GsdIdle
    /\ IterIdle
    /\ MainIdle

Shoelace ==
    /\ area = <<>>
    /\ area' = [val |-> shoelace(polygon)]
    /\ UNCHANGED <<polygon, coreVars, ringVars, strVars, voroVars, gsdVars,
                   iterVars, mainVars>>

NextShoelace == Shoelace

SpecShoelace == InitShoelace /\ [][NextShoelace]_vars

\* The sum of (x_i + x_j) * (y_j - y_i) over every vertex i of the closed
\* polygon, j the vertex after i and the first vertex after the last.
CyclicSum(poly) ==
    LET n == Len(poly)
    IN  SumSeq([i \in 1..n |->
                   LET j == (i % n) + 1
                   IN  ((poly[i].x + poly[j].x) * (poly[j].y - poly[i].y))
                           \div Unit])

\* C21: shoelace returns half the absolute value of the sum of
\* (x_i + x_{i+1}) * (y_{i+1} - y_i) over the cyclic vertex sequence, so the
\* result is never negative, and the triangle (0,1), (2,3), (4,7) has area 2.
C21_ShoelaceFormula ==
    area # <<>> =>
        /\ 2 * area.val = Abs(CyclicSum(polygon))
        /\ area.val >= 0
        /\ (polygon = simple_area => area.val = 2 * Unit)

C21_Witness == polygon = simple_area /\ area = [val |-> 2 * Unit]

\* ---------------------------------------------------------------------
\* SpecRing: hexatic_order_iter on rings of neighbours at unit distance,
\* with angles in whole degrees.
\* ---------------------------------------------------------------------

\* Degrees in a full turn (f32::to_radians).
FullTurn == 360

\* The rotations of the test hexatic_order_rotated: for i in 0..360.
Rotations == 0..(FullTurn - 1)

\* The angles of hexatic_order_perfect, and a ring of four for contrast.
Hexagon == <<0, 60, 120, 180, 240, 300>>
Square == <<0, 90, 180, 270>>
Rings == {Hexagon, Square}

\* The neighbours of the tests: the point for the angle a is
\* (sin a, cos a, 0), a degrees clockwise from the direction (0, 1).
Rotated(angles, i) == [m \in 1..Len(angles) |-> angles[m] + i]

\* Rotation2::rotation_between(&(0, 1), &(sin a, cos a)).angle(): the
\* anticlockwise angle from (0, 1) to the point, in (-180, 180] degrees.
RotationAngle(a) ==
    LET t == (0 - a) % FullTurn
    IN  IF 2 * t > FullTurn THEN t - FullTurn ELSE t

\* UnitComplex::from_angle: the point of the unit circle at a degrees.
FromDegrees(a) == a % FullTurn

\* hexatic_order_iter leaving out the multiplication by num_neighbours.
hexatic_order_iter_unscaled(angles, n) ==
    [terms |-> [m \in 1..Len(angles) |-> FromDegrees(RotationAngle(angles[m]))],
     den |-> n]

\* hexatic_order_iter for a reference at the origin and the neighbours
\* (sin a, cos a, 0): the value is the norm of the sum of the unit complex
\* numbers at the degrees in terms, each divided by den.
hexatic_order_iter_polar(angles, n) ==
    [terms |-> [m \in 1..Len(angles) |->
                   FromDegrees(RotationAngle(angles[m]) * n)],
     den |-> n]

\* The norm of a sum of unit complex numbers, each divided by den, is 1
\* exactly when there are den of them and they all coincide; otherwise it
\* is below 1.
NormIsOne(z) ==
    /\ Len(z.terms) = z.den
    /\ \A m \in 1..Len(z.terms) : z.terms[m] = z.terms[1]

InitRing ==
    /\ ring \in [angles : Rings, rot : Rotations]
    /\ psi = <<>>
    /\ CoreIdle
    /\ ShoelaceIdle
    /\ FromStrIdle
    /\ VoronoiIdle
    /\ GsdIdle
    /\ IterIdle
    /\ MainIdle

HexaticOrderIter ==
    /\ psi = <<>>
    /\ psi' = [val |-> hexatic_order_iter_polar(
                           Rotated(ring.angles, ring.rot), Len(Hexagon))]
    /\ UNCHANGED <<ring, coreVars, shoeVars, strVars, voroVars, gsdVars,
                   iterVars, mainVars>>

NextRing == HexaticOrderIter

SpecRing == InitRing /\ [][NextRing]_vars

\* C26: for six neighbours at unit distance at 0, 60, ..., 300 degrees the
\* hexatic order with k = 6 is 1, and it stays 1 when the hexagon is
\* rotated by any whole number of degrees from 0 to 359.
C26_PerfectHexagon ==
    (psi # <<>> /\ ring.angles = Hexagon) => NormIsOne(psi.val)

C26_Witness ==
    /\ psi # <<>>
    /\ ring.angles = Hexagon
    /\ ring.rot = FullTurn - 1
    /\ NormIsOne(psi.val)

\* ---------------------------------------------------------------------
\* SpecFromStr: Classes::from_str of learning.rs on short file names.
\* ---------------------------------------------------------------------

\* The longest file name handed to from_str.
MaxName == 5

\* The characters of the names: those of the three patterns and one other.
Alphabet == {"-", "p", "2", "g", "a"}
Names == SeqsUpTo(Alphabet, MaxName)

\* str::contains for a pattern given as a sequence of characters.
Contains(s, pat) ==
    \E i \in 1..(Len(s) - Len(pat) + 1) : SubSeq(s, i, i + Len(pat) - 1) = pat

PatP2 == <<"-", "p", "2">>
PatP2GG == <<"-", "p", "2", "g", "g">>
PatPG == <<"-", "p", "g">>

\* The match of from_str: the first arm whose guard holds.
from_str(s) ==
    Ok(IF Contains(s, PatP2) THEN "P2"
       ELSE IF Contains(s, PatP2GG) THEN "P2GG"
       ELSE IF Contains(s, PatPG) THEN "PG"
       ELSE "Liquid")

InitFromStr ==
    /\ name \in Names
    /\ parsed = <<>>
    /\ CoreIdle
    /\ ShoelaceIdle
    /\ RingIdle
    /\ VoronoiIdle
    /\ GsdIdle
    /\ IterIdle
    /\ MainIdle

FromStr ==
    /\ parsed = <<>>
    /\ parsed' = [res |-> from_str(name)]
    /\ UNCHANGED <<name, coreVars, shoeVars, ringVars, voroVars, gsdVars,
                   iterVars, mainVars>>

NextFromStr == FromStr

SpecFromStr == InitFromStr /\ [][NextFromStr]_vars

\* C28: from_str never returns an error; a name containing "-p2gg" gives
\* P2GG, one containing "-pg" gives PG, one containing "-p2" but not
\* "-p2gg" gives P2, and every other name gives Liquid.
C28_FromStrLabels ==
    parsed # <<>> =>
        /\ parsed.res.ok
        /\ Contains(name, PatP2GG) => parsed.res.val = "P2GG"
        /\ (Contains(name, PatPG) /\ ~Contains(name, PatP2))
               => parsed.res.val = "PG"
        /\ (Contains(name, PatP2) /\ ~Contains(name, PatP2GG)
                /\ ~Contains(name, PatPG))
               => parsed.res.val = "P2"
        /\ (~Contains(name, PatP2) /\ ~Contains(name, PatPG))
               => parsed.res.val = "Liquid"

\* ---------------------------------------------------------------------
\* SpecVoronoi: voronoi_area of voronoi.rs. The tessellation itself
\* (voronoi, make_polygons, Cell::try_from) is the voronoi crate's; the
\* model keeps what voronoi_area does around it.
\* ---------------------------------------------------------------------

\* The most particles in a frame handed to voronoi_area.
MaxPoints == 3

\* Particle positions: three inside the cell Cube2 and one outside it.
VoronoiSites == {<<0, 0, 0>>, <<Half, 0, 0>>, <<0, Half, 0>>,
                 <<3 * Half, Half, 0>>}
\* Cube2 and a sheared cell, each with up to MaxPoints particles, and the
\* frame of GSDFrame::new(0): no particles in the cell [0.; 6].
ZeroCell == <<0, 0, 0, 0, 0, 0>>
VoronoiFrames ==
    [simulation_cell : {Cube2, <<4 * Unit, 2 * Unit, 2 * Unit, Half, 0, 0>>},
     position : SeqsUpTo(VoronoiSites, MaxPoints)]
        \cup {[simulation_cell |-> ZeroCell, position |-> <<>>]}

\* Point::new(f64::from(p[0]), f64::from(p[1]))
PointXY(p) == [x |-> p[1], y |-> p[2]]

\* The corners of the cell in fractional coordinates.
FractionalCorners == <<<<0, 0, Half>>, <<Unit, 0, Half>>,
                       <<Unit, Unit, Half>>, <<0, Unit, Half>>>>

\* Cell::try_from(cell_corners): the crate may refuse corners that enclose
\* no area; it takes the corners of a cell with positive edges.
CellTryFrom(corners) ==
    IF shoelace(corners) > 0 THEN {"ok"} ELSE {"ok", "err"}

\* make_polygons(&voronoi(points, &boundary)): neither call returns a
\* Result. With three or more distinct points there is one polygon per
\* point; with fewer the crate's behaviour is not fixed by this repository:
\* it may panic or return any number of polygons up to the points given.
Tessellate(points) ==
    IF Cardinality({points[i] : i \in 1..Len(points)}) >= 3
    THEN {[kind |-> "ok", len |-> Len(points)]}
    ELSE {[kind |-> "ok", len |-> m] : m \in 0..Len(points)}
             \cup {[kind |-> "panic", len |-> 0]}

\* voronoi_area: the outcomes it can have on a frame. The only error it
\* returns is the one of Cell::try_from, through the ? operator; the areas
\* are shoelace of each polygon, so there are as many as polygons.
voronoi_area(f) ==
    LET points == [i \in 1..Len(f.position) |->
                      PointXY(min_image(f.simulation_cell, f.position[i]))]
        cell_corners == [i \in 1..Len(FractionalCorners) |->
                            PointXY(make_cartesian(f.simulation_cell,
                                                   FractionalCorners[i]))]
    IN  (IF "err" \in CellTryFrom(cell_corners)
         THEN {[kind |-> "err", len |-> 0]} ELSE {})
        \cup (IF "ok" \in CellTryFrom(cell_corners)
              THEN Tessellate(points) ELSE {})

InitVoronoi ==
    /\ vframe \in VoronoiFrames
    /\ areas = <<>>
    /\ CoreIdle
    /\ ShoelaceIdle
    /\ RingIdle
    /\ FromStrIdle
    /\ GsdIdle
    /\ IterIdle
    /\ MainIdle

VoronoiArea ==
    /\ areas = <<>>
    /\ \E r \in voronoi_area(vframe) : areas' = [res |-> r]
    /\ UNCHANGED <<vframe, coreVars, shoeVars, ringVars, strVars, gsdVars,
                   iterVars, mainVars>>

NextVoronoi == VoronoiArea

SpecVoronoi == InitVoronoi /\ [][NextVoronoi]_vars

\* C22: voronoi_area returns an error, neither panicking nor returning a
\* list of areas, when the frame has fewer than 3 particle positions.
C22_FewPointsError ==
    (areas # <<>> /\ Len(vframe.position) < 3) => areas.res.kind = "err"

\* ---------------------------------------------------------------------
\* SpecTraj: the iterator of GSDTrajectory (crate gsd). The GSD file is
\* the list of its frames, each a table of named chunks; gsd_find_chunk is
\* the C library's and finds nothing for a frame the file does not have.
\* ---------------------------------------------------------------------

\* The most frames in a GSD file, the most calls made on one iterator, and
\* the largest argument of nth.
MaxFrames == 3
MaxCalls == 3
MaxNth == 2

\* A chunk of count elements.
Chunk(count, data) == [N |-> count, data |-> data]

ChunkNames == {"particles/N", "configuration/step", "configuration/box",
               "particles/position"}

\* One frame of a file: positions in the cell Cube2 at timestep step. The
\* chunk particles/N holds n, which for a sound frame is Len(position).
FileFrame(n, step, position) ==
    [c \in ChunkNames |->
        IF c = "particles/N" THEN Chunk(1, n)
        ELSE IF c = "configuration/step" THEN Chunk(1, step)
        ELSE IF c = "configuration/box" THEN Chunk(Len(Cube2), Cube2)
        ELSE Chunk(Len(position), position)]

PairPositions == <<<<0, 0, 0>>, <<Half, 0, 0>>>>
TriplePositions == <<<<0, 0, 0>>, <<Half, 0, 0>>, <<0, Half, 0>>>>
\* Frames of two and of three particles, and a frame whose position chunk
\* is shorter than its particles/N says.
PairFrame == FileFrame(2, 1, PairPositions)
TripleFrame == FileFrame(3, 1, TriplePositions)
TornFrame == FileFrame(3, 1, PairPositions)
SoundFrames == {PairFrame, TripleFrame}
Files == [frames : SeqsUpTo(SoundFrames \cup {TornFrame}, MaxFrames)]

\* GSDFrame::new(n), without the orientations and images.
GSDFrameNew(n) ==
    [timestep |-> 0,
     position |-> [i \in 1..n |-> <<0, 0, 0>>],
     simulation_cell |-> ZeroCell]

\* GSDTrajectory::nframes
nframes(f) == Len(f.frames)

\* _safe_gsd_find_chunk: gsd_find_chunk returns NULL for a frame at or past
\* gsd_get_nframes and for a name the frame does not hold.
FindChunk(f, index, chunkname) ==
    IF index < nframes(f) /\ chunkname \in DOMAIN f.frames[index + 1]
    THEN Ok(f.frames[index + 1][chunkname])
    ELSE Err("Chunk was not found")

\* read_chunk into a buffer of len elements holding buf: a chunk that is
\* not found leaves the buffer as it is and is not an error.
read_chunk(f, index, chunkname, buf, len) ==
    LET gsd_index == FindChunk(f, index, chunkname)
    IN  IF ~gsd_index.ok THEN Ok(buf)
        ELSE IF gsd_index.val.N # len THEN Err("Incorrect size provided")
        ELSE Ok(gsd_index.val.data)

\* get_frame: each read_chunk is followed by ?, so the first error is
\* returned.
get_frame(f, index) ==
    LET num_particles == read_chunk(f, index, "particles/N", 0, 1)
    IN  IF ~num_particles.ok THEN num_particles
        ELSE
        LET new == GSDFrameNew(num_particles.val)
            timestep == read_chunk(f, index, "configuration/step", 0, 1)
            cellbox == read_chunk(f, index, "configuration/box",
                                  new.simulation_cell,
                                  Len(new.simulation_cell))
            position == read_chunk(f, index, "particles/position",
                                   new.position, Len(new.position))
        IN  IF ~timestep.ok THEN timestep
            ELSE IF ~cellbox.ok THEN cellbox
            ELSE IF ~position.ok THEN position
            ELSE Ok([timestep |-> timestep.val,
                     position |-> position.val,
                     simulation_cell |-> cellbox.val])

\* next and nth after the cursor has been advanced to c: both arms for an
\* error return None.
FrameAt(f, c) ==
    LET got == get_frame(f, c - 1)
    IN  IF got.ok THEN Some(got.val) ELSE None

\* Iterator::next: the new cursor and the item returned.
IterNext(f, c) == [curr |-> c + 1, item |-> FrameAt(f, c + 1)]

\* Iterator::nth
IterNth(f, c, n) == [curr |-> c + 1 + n, item |-> FrameAt(f, c + 1 + n)]

\* size_hint().1
SizeHintUpper(f) == nframes(f)

InitTraj ==
    /\ file \in Files
    /\ curr = 0
    /\ yielded = <<>>
    /\ CoreIdle
    /\ ShoelaceIdle
    /\ RingIdle
    /\ FromStrIdle
    /\ VoronoiIdle
    /\ MainIdle

\* A call is recorded with the index it asked get_frame for.
TrajNext ==
    /\ Len(yielded) < MaxCalls
    /\ LET r == IterNext(file, curr)
       IN  /\ curr' = r.curr
           /\ yielded' = Append(yielded, [index |-> r.curr - 1, item |-> r.item])
    /\ UNCHANGED <<file, coreVars, shoeVars, ringVars, strVars, voroVars,
                   mainVars>>

TrajNth(n) ==
    /\ Len(yielded) < MaxCalls
    /\ LET r == IterNth(file, curr, n)
       IN  /\ curr' = r.curr
           /\ yielded' = Append(yielded, [index |-> r.curr - 1, item |-> r.item])
    /\ UNCHANGED <<file, coreVars, shoeVars, ringVars, strVars, voroVars,
                   mainVars>>

NextTraj == TrajNext \/ \E n \in 0..MaxNth : TrajNth(n)

SpecTraj == InitTraj /\ [][NextTraj]_vars

\* The calls that returned a frame.
Frames_yielded == SelectSeq(yielded, LAMBDA y : y.item.some)

\* C27: however next and nth are mixed, the trajectory yields only frames
\* whose index is below nframes, in strictly increasing order of index and
\* never more of them than nframes (the upper bound of size_hint); a call
\* for an index at or past nframes returns None, never a frame.
C27_IteratorBounded ==
    /\ \A i \in 1..Len(yielded) :
           yielded[i].index >= nframes(file) => ~yielded[i].item.some
    /\ \A i, j \in 1..Len(yielded) : i < j => yielded[i].index < yielded[j].index
    /\ Len(Frames_yielded) <= SizeHintUpper(file)

\* ---------------------------------------------------------------------
\* SpecMain: the binary of main.rs. The main thread opens the trajectory,
\* starts the writer thread and hands one closure per frame to the rayon
\* pool; the closures run in any order and send their CalcResult over the
\* mpsc channel the writer thread drains.
\* ---------------------------------------------------------------------

\* The largest --skip-frames tried.
MaxSkip == 2

\* The files the binary is run on, and its command lines: --num-frames
\* absent or up to one more than the file can hold, --skip-frames from 0.
MainFiles == [frames : SeqsUpTo(SoundFrames, MaxFrames)]
ArgsSet ==
    [num_frames : {None} \cup {Some(n) : n \in 0..(MaxFrames + 1)},
     skip_frames : 0..MaxSkip,
     voronoi : BOOLEAN]

\* let num_frames = match args.num_frames { .. }, for skip_frames > 0.
num_frames(a, f) ==
    IF a.num_frames.some THEN Min(a.num_frames.val, nframes(f))
    ELSE nframes(f) \div a.skip_frames

\* The process is running: no thread has panicked and main has not
\* returned.
Alive == pc \in {"start", "dispatch", "drop", "join"}

InitMain ==
    /\ file \in MainFiles
    /\ curr = 0
    /\ args \in ArgsSet
    /\ pc = "start"
    /\ adaptor = <<>>
    /\ tasks = <<>>
    /\ chan = <<>>
    /\ writer = <<>>
    /\ written = <<>>
    /\ CoreIdle
    /\ ShoelaceIdle
    /\ RingIdle
    /\ FromStrIdle
    /\ VoronoiIdle
    /\ IterIdle

\* main up to the dispatch loop. A division by zero (num_frames absent) and
\* step_by(0) both panic in the main thread.
Start ==
    /\ pc = "start"
    /\ IF args.skip_frames = 0
       THEN /\ pc' = "panicked"
            /\ UNCHANGED <<adaptor, writer>>
       ELSE /\ pc' = "dispatch"
            /\ adaptor' = [first_take |-> TRUE,
                           step |-> args.skip_frames - 1,
                           n |-> num_frames(args, file)]
            /\ writer' = [state |-> "running", progress |-> 0]
    /\ UNCHANGED <<file, curr, args, tasks, chan, written, coreVars, shoeVars,
                   ringVars, strVars, voroVars, iterVars>>

\* One turn of for frame in trj.step_by(skip_frames).take(num_frames):
\* Take::next returns None at n = 0 and otherwise counts down and asks
\* StepBy::next, which calls next the first time and nth(step - 1) after;
\* a frame is moved into a closure handed to rayon::spawn_fifo together
\* with a clone of tx.
Dispatch ==
    /\ pc = "dispatch"
    /\ IF adaptor.n = 0
       THEN /\ pc' = "drop"
            /\ UNCHANGED <<curr, adaptor, tasks>>
       ELSE LET r == IF adaptor.first_take THEN IterNext(file, curr)
                     ELSE IterNth(file, curr, adaptor.step)
            IN  /\ curr' = r.curr
                /\ adaptor' = [adaptor EXCEPT !.first_take = FALSE,
                                              !.n = @ - 1]
                /\ IF r.item.some
                   THEN /\ tasks' = Append(tasks, [index |-> r.curr - 1,
                                                   frame |-> r.item.val,
                                                   status |-> "spawned"])
                        /\ pc' = pc
                   ELSE /\ pc' = "drop"
                        /\ UNCHANGED tasks
    /\ UNCHANGED <<file, args, chan, writer, written, coreVars, shoeVars,
                   ringVars, strVars, voroVars, iterVars>>

\* Frame::from(frame), as far as the closure's results depend on it.
FrameFrom(g) ==
    [timestep |-> g.timestep,
     simulation_cell |-> g.simulation_cell,
     position |-> g.position]

\* The area of the closure: None without --voronoi, otherwise
\* Some(voronoi_area(&f).unwrap()), where unwrap panics on an error.
AreaOutcomes(a, f) ==
    IF a.voronoi THEN voronoi_area(f) ELSE {[kind |-> "none", len |-> 0]}

\* The CalcResult of task i: orient_order, hexatic_order and class have one
\* entry per particle.
CalcResult(i, f, a) ==
    [task |-> i,
     timestep |-> f.timestep,
     len |-> Len(f.position),
     area |-> IF a.kind = "none" THEN None ELSE Some(a.len)]

\* The closure of task i, run by a thread of the pool. A panic in it
\* reaches rayon's default panic handler, which aborts the process;
\* otherwise the result is sent and the closure's tx is dropped.
Work(i) ==
    /\ Alive
    /\ tasks[i].status = "spawned"
    /\ LET f == FrameFrom(tasks[i].frame)
       IN  \E a \in AreaOutcomes(args, f) :
               IF a.kind \in {"err", "panic"}
               THEN /\ pc' = "aborted"
                    /\ tasks' = [tasks EXCEPT ![i].status = "failed"]
                    /\ UNCHANGED chan
               ELSE /\ chan' = Append(chan, CalcResult(i, f, a))
                    /\ tasks' = [tasks EXCEPT ![i].status = "sent"]
                    /\ UNCHANGED pc
    /\ UNCHANGED <<file, curr, args, adaptor, writer, written, coreVars,
                   shoeVars, ringVars, strVars, voroVars, iterVars>>

\* Into<Vec<Row>>: izip! stops at the shortest of its lists.
Rows(r) ==
    [m \in 1..(IF r.area.some THEN Min(r.len, r.area.val) ELSE r.len) |->
        [task |-> r.task, molecule |-> m - 1, timestep |-> r.timestep]]

\* One turn of for frame_result in rx.iter() in the writer thread.
Write ==
    /\ Alive
    /\ writer # <<>>
    /\ writer.state = "running"
    /\ chan # <<>>
    /\ written' = written \o Rows(Head(chan))
    /\ chan' = Tail(chan)
    /\ writer' = [writer EXCEPT !.progress = @ + 1]
    /\ UNCHANGED <<file, curr, args, pc, adaptor, tasks, coreVars, shoeVars,
                   ringVars, strVars, voroVars, iterVars>>

\* rx.iter() ends when the channel is empty and every sender is gone: the
\* tx of main and the clone of every closure. The writer then flushes.
Flush ==
    /\ Alive
    /\ writer # <<>>
    /\ writer.state = "running"
    /\ chan = <<>>
    /\ pc = "join"
    /\ \A i \in 1..Len(tasks) : tasks[i].status # "spawned"
    /\ writer' = [writer EXCEPT !.state = "finished"]
    /\ UNCHANGED <<file, curr, args, pc, adaptor, tasks, chan, written,
                   coreVars, shoeVars, ringVars, strVars, voroVars, iterVars>>

\* drop(tx)
DropTx ==
    /\ pc = "drop"
    /\ pc' = "join"
    /\ UNCHANGED <<file, curr, args, adaptor, tasks, chan, writer, written,
                   coreVars, shoeVars, ringVars, strVars, voroVars, iterVars>>

\* writer_thread.join() and the return of main.
Join ==
    /\ pc = "join"
    /\ writer.state = "finished"
    /\ pc' = "done"
    /\ UNCHANGED <<file, curr, args, adaptor, tasks, chan, writer, written,
                   coreVars, shoeVars, ringVars, strVars, voroVars, iterVars>>

NextMain ==
    \/ Start
    \/ Dispatch
    \/ \E i \in 1..Len(tasks) : Work(i)
    \/ Write
    \/ Flush
    \/ DropTx
    \/ Join

SpecMain == InitMain /\ [][NextMain]_vars

\* The indices 0, s, 2 s, ... below nframes.
Sampled(f, s) == [i \in 1..((nframes(f) + s - 1) \div s) |-> (i - 1) * s]

\* The first min(requested, available) sampled frames, every sampled frame
\* being requested when --num-frames is absent.
Expected(a, f) ==
    LET available == Sampled(f, a.skip_frames)
        requested == IF a.num_frames.some THEN a.num_frames.val
                     ELSE Len(available)
    IN  SubSeq(available, 1, Min(requested, Len(available)))

\* The indices of the frames handed to the pool, in dispatch order.
Dispatched == [i \in 1..Len(tasks) |-> tasks[i].index]

\* C25: with skip_frames = s >= 1 the frames dispatched are the first
\* min(requested, available) of the frames 0, s, 2 s, ... below nframes: all
\* of them when --num-frames is absent, and never a frame with an index at
\* or past nframes.
C25_DispatchedFrames ==
    /\ \A i \in 1..Len(tasks) : tasks[i].index < nframes(file)
    /\ (pc \in {"drop", "join", "done"} /\ args.skip_frames >= 1)
           => Dispatched = Expected(args, file)

\* The rows of task i that have been written.
RowsOf(i) == SelectSeq(written, LAMBDA row : row.task = i)

\* C23: a failure of the Voronoi computation of one frame stays with that
\* frame: the process is not aborted, and when main returns every other
\* frame has been sent and written and the writer has finished.
C23_FailureConfined ==
    \A i \in 1..Len(tasks) :
        tasks[i].status = "failed" =>
            /\ pc # "aborted"
            /\ pc = "done" =>
                   /\ writer.state = "finished"
                   /\ \A j \in 1..Len(tasks) :
                          j # i => tasks[j].status = "sent"

\* The CalcResults of task i in the channel.
InChannel(i) == SelectSeq(chan, LAMBDA r : r.task = i)

\* Some thread can take a step: the main thread is before its join, a
\* closure is waiting for the pool, the writer has a result to receive or
\* sees the channel closed, or the join finds the writer finished.
Runnable ==
    \/ pc \in {"start", "dispatch", "drop"}
    \/ \E i \in 1..Len(tasks) : tasks[i].status = "spawned"
    \/ /\ writer # <<>>
       /\ \/ writer.state = "running" /\ chan # <<>>
          \/ writer.state = "running" /\ pc = "join"
          \/ writer.state = "finished" /\ pc = "join"

\* C24: under every interleaving each dispatched frame puts one CalcResult
\* on the channel and the writer writes it once, the rows of a frame next to
\* each other; the process is never stuck or aborted, and when main has
\* returned every frame has been written, the channel is empty and the
\* writer has flushed.
C24_ExactlyOnce ==
    /\ pc # "aborted"
    /\ Alive => Runnable
    /\ \A i \in 1..Len(tasks) :
           /\ Len(InChannel(i)) <= 1
           /\ tasks[i].status = "spawned" =>
                  (InChannel(i) = <<>> /\ RowsOf(i) = <<>>)
           /\ (tasks[i].status = "sent" /\ InChannel(i) # <<>>) =>
                  RowsOf(i) = <<>>
           /\ \A m \in 1..Len(RowsOf(i)) : RowsOf(i)[m].molecule = m - 1
    /\ \A a, b, c \in 1..Len(written) :
           (a < b /\ b < c /\ written[a].task = written[c].task)
               => written[b].task = written[a].task
    /\ writer # <<>> =>
           writer.progress =
               Cardinality({i \in 1..Len(tasks) :
                               tasks[i].status = "sent" /\ InChannel(i) = <<>>})
    /\ pc = "done" =>
           /\ \A i \in 1..Len(tasks) : tasks[i].status = "sent"
           /\ chan = <<>>
           /\ writer = [state |-> "finished", progress |-> Len(tasks)]

====
